---- MODULE Spec2Model ----
(***************************************************************************)
(* Model of the Docker NAT-traversal test harness (src-tauri/src/bin/      *)
(* nat_test.rs) and of the static bootstrap-node accessor (src-tauri/src/  *)
(* commands/bootstrap.rs).                                                 *)
(*                                                                         *)
(* Text is modelled as a sequence of one-character strings, so that        *)
(* substring search, replacement, trimming and the peer-id regular         *)
(* expression are computed character by character, as the library code     *)
(* does.                                                                   *)
(***************************************************************************)
EXTENDS Naturals, Integers, Sequences, FiniteSets, TLC

VARIABLES
    pc,                 \* position of main() in nat_test.rs
    result,             \* "Running", "Ok" (main returned Ok(())) or "Err"
    err,                \* which error main returned ("" when none)
    file,               \* persisted content of docker-compose.nat-test.yml
    start_time,         \* let start_time (line 55)
    attempt,            \* loop variable of `for attempt in 1..=20`
    peer_id_line,       \* let peer_id_line (line 75), last iteration
    peer_id,            \* Option<String>: <<>> is None, <<t>> is Some(t)
    reported_attempt,   \* the attempt number printed on success (line 82)
    compose_content,    \* let compose_content (line 97)
    updated_content,    \* let updated_content (line 98)
    original_content,   \* let original_content (line 115)
    peer1_ok,           \* outcome of the command-line check (lines 129-135)
    container,          \* index into the container list of line 139
    combined,           \* let combined (line 144), last iteration
    connected,          \* let connected (line 150), last iteration
    peer1_combined,     \* let peer1_combined (line 162)
    counts,             \* <<dcutr_count, autonat_count, reachability_count>>
    file0,              \* history: content of the file before the run
    events,             \* history: external operations issued, in order
    writes,             \* history: contents handed to fs::write, in order
    entered,            \* history: orchestration states entered, in order
    happened,           \* history: outcomes the environment produced
    leastMatch,         \* history: first attempt whose log held a token
    matchToken,         \* history: the token that log held
    onlyMalformed,      \* history: every log so far named no valid token
    last,               \* history: the last command and what it reported
    calls,              \* bootstrap.rs: results of the calls made so far
    rt                  \* rewriter law: document, placeholder, value, stage

vars == <<pc, result, err, file, start_time, attempt, peer_id,
          reported_attempt, compose_content, updated_content,
          original_content, peer1_ok, container, combined, connected,
          counts, file0, events, writes, entered, happened, leastMatch,
          matchToken, last, calls, rt, peer_id_line, peer1_combined,
          onlyMalformed>>

-----------------------------------------------------------------------------
(* Bounds of the model *)

\* number of calls of the bootstrap accessors that are recorded
MaxCalls == 6
\* length of the documents, placeholders and values of the rewriter law
MaxLen == 3

-----------------------------------------------------------------------------
(* Character classes and literals of the source *)

Upper == {"A","B","C","D","E","F","G","H","I","J","K","L","M","N","O","P","Q","R","S","T","U","V","W","X","Y","Z"}
Lower == {"a","b","c","d","e","f","g","h","i","j","k","l","m","n","o","p","q","r","s","t","u","v","w","x","y","z"}
Digit == {"0","1","2","3","4","5","6","7","8","9"}
\* the class [A-Za-z0-9] of the regular expression of line 58
Alnum == Upper \cup Lower \cup Digit
\* char::is_whitespace restricted to the characters that occur here
Whitespace == {" ", "\n", "\t", "\r"}

\* "BOOTSTRAP_PEER_ID" (lines 98, 115)
PLACEHOLDER == <<"B","O","O","T","S","T","R","A","P","_","P","E","E","R","_","I","D">>
\* "local_peer_id=" of the regular expression (line 58)
PeerIdLiteral == <<"l","o","c","a","l","_","p","e","e","r","_","i","d","=">>
\* "12D3" of the regular expression (line 58)
PeerIdPrefix == <<"1","2","D","3">>
\* variant: the repetition is {43,}
MinTail_Loose == 44 - 1
\* the {44,} of the regular expression (line 58)
MinTail == 44
\* variant: the range is exclusive, `1..20`
MaxAttempts_Exclusive == 20 - 1
\* `for attempt in 1..=20` (line 61)
MaxAttempts == 20
\* "Connected to" (line 150)
MarkerConnectedTo == <<"C","o","n","n","e","c","t","e","d"," ","t","o">>
\* "Total connected peers" (line 150)
MarkerTotalConnected == <<"T","o","t","a","l"," ","c","o","n","n","e","c","t","e","d"," ","p","e","e","r","s">>
\* "DCUtR" (line 168)
MarkerDCUtR == <<"D","C","U","t","R">>
\* "AutoNAT" (line 169)
MarkerAutoNAT == <<"A","u","t","o","N","A","T">>
\* "Reachability" (line 170)
MarkerReachability == <<"R","e","a","c","h","a","b","i","l","i","t","y">>
\* the one address of the vec! of bootstrap.rs (line 9)
BootstrapNode0 == <<"/","i","p","4","/","3","5",".","2","3","7",".","1","3","3",".","4","2","/","t","c","p","/","4","0","0","1","/","p","2","p","/","1","2","D","3","K","o","o","W","B","e","Y","3","F","u","P","X","g","g","n","U","u","8","f","5","6","T","Q","d","e","1","x","f","v","F","p","d","s","L","V","5","c","o","X","p","t","n","5","z","t","V","J","G">>
\* the containers of the loop of line 139
Containers == <<"chiral-peer1", "chiral-peer2", "chiral-peer3", "chiral-public-peer">>

\* the messages of the errors main returns
ErrBuild == "Build failed"
ErrBootstrap == "Bootstrap start failed"
ErrTimeout == "Could not extract peer ID from bootstrap logs after 20 seconds. Check container logs with: docker logs chiral-bootstrap"
ErrPeers == "Peer start failed"
ErrIo == "io::Error"

-----------------------------------------------------------------------------
(* The string functions of the standard library and of the regex crate, as *)
(* they are used by main()                                                 *)

\* pat occurs in s at position i (1-based)
MatchAt(s, pat, i) ==
    /\ i + Len(pat) - 1 <= Len(s)
    /\ SubSeq(s, i, i + Len(pat) - 1) = pat

\* the searcher behind str::contains / matches / replace: the first match
\* at or after position i, 0 when there is none
FindFrom(s, pat, i) ==
    LET M == { j \in i..(Len(s) - Len(pat) + 1) : MatchAt(s, pat, j) }
    IN  IF M = {} THEN 0 ELSE CHOOSE j \in M : \A k \in M : j <= k

\* str::contains
contains(s, pat) == FindFrom(s, pat, 1) # 0

\* str::replace with an empty pattern: `to` at every character boundary
RECURSIVE Intersperse(_, _, _)
Intersperse(s, to, i) ==
    IF i > Len(s) THEN to
    ELSE to \o <<s[i]>> \o Intersperse(s, to, i + 1)

\* str::replace: the text between the non-overlapping matches, taken left
\* to right, with `to` in place of every match
RECURSIVE ReplaceFrom(_, _, _, _)
ReplaceFrom(s, from, to, i) ==
    LET m == FindFrom(s, from, i)
    IN  IF m = 0 THEN SubSeq(s, i, Len(s))
        ELSE SubSeq(s, i, m - 1) \o to \o ReplaceFrom(s, from, to, m + Len(from))

replace(s, from, to) ==
    IF from = <<>> THEN Intersperse(s, to, 1)
    ELSE ReplaceFrom(s, from, to, 1)

\* str::matches(pat).count() for a non-empty pattern
RECURSIVE CountFrom(_, _, _)
CountFrom(s, pat, i) ==
    LET m == FindFrom(s, pat, i)
    IN  IF m = 0 THEN 0 ELSE 1 + CountFrom(s, pat, m + Len(pat))

\* variant: presence is reported instead of the number of matches
matches_count_Presence(s, pat) == IF contains(s, pat) THEN 1 ELSE 0

matches_count(s, pat) == CountFrom(s, pat, 1)

\* str::trim
RECURSIVE TrimStart(_)
TrimStart(s) ==
    IF s # <<>> /\ Head(s) \in Whitespace THEN TrimStart(Tail(s)) ELSE s

RECURSIVE TrimEnd(_)
TrimEnd(s) ==
    IF s # <<>> /\ s[Len(s)] \in Whitespace
    THEN TrimEnd(SubSeq(s, 1, Len(s) - 1)) ELSE s

trim(s) == TrimEnd(TrimStart(s))

\* length of the run of [A-Za-z0-9] characters of s that starts at i
AlnumRun(s, i) ==
    LET Stop == { j \in i..Len(s) : s[j] \notin Alnum }
    IN  IF Stop = {} THEN Len(s) - i + 1
        ELSE (CHOOSE j \in Stop : \A k \in Stop : j <= k) - i

\* variant: the repetition is lazy, the group stops after 44 characters
CapturesFrom_Lazy(s, i) ==
    LET H == PeerIdLiteral \o PeerIdPrefix
        M == { j \in i..Len(s) :
                 MatchAt(s, H, j) /\ AlnumRun(s, j + Len(H)) >= MinTail }
    IN  IF M = {} THEN <<>>
        ELSE LET j == CHOOSE j \in M : \A k \in M : j <= k
                 b == j + Len(PeerIdLiteral)
             IN  << SubSeq(s, b, b + Len(PeerIdPrefix) + MinTail - 1) >>

\* Regex::captures for local_peer_id=(12D3[A-Za-z0-9]{44,}): group 1 of the
\* leftmost match, the repetition being greedy; <<>> is None, <<t>> Some(t)
CapturesFrom(s, i) ==
    LET H == PeerIdLiteral \o PeerIdPrefix
        M == { j \in i..Len(s) :
                 MatchAt(s, H, j) /\ AlnumRun(s, j + Len(H)) >= MinTail }
    IN  IF M = {} THEN <<>>
        ELSE LET j == CHOOSE j \in M : \A k \in M : j <= k
                 b == j + Len(PeerIdLiteral)
                 n == AlnumRun(s, b + Len(PeerIdPrefix))
             IN  << SubSeq(s, b, b + Len(PeerIdPrefix) + n - 1) >>

peer_id_regex_captures(s) == CapturesFrom(s, 1)

-----------------------------------------------------------------------------
(* What the environment can hand to main(): command outcomes and texts *)

\* Command::status / Command::output: Err(io::Error), or an exit status
Statuses == {"success", "failure"}
Outcomes == {"launch_fail"} \cup Statuses

RECURSIVE Rep(_, _)
Rep(s, n) == IF n = 0 THEN <<>> ELSE s \o Rep(s, n - 1)

\* a peer identifier as libp2p prints it (52 characters)
ID52 == SubSeq(BootstrapNode0, 33, 84)
\* a 48-character identifier that overlaps itself
IDRep == Rep(PeerIdPrefix, 12)
\* one character short of the {44,} of the regular expression
IDShort == SubSeq(ID52, 1, 47)
\* an identifier of the older "Qm" form
IDQm == <<"Q","m">> \o SubSeq(ID52, 3, 52)

Line(t) == PeerIdLiteral \o t \o <<"\n">>

\* stdout of `docker logs --since ... | grep 'local_peer_id='` (line 70):
\* nothing, or the lines that contain local_peer_id=
GrepOutputs ==
    { <<>>,
      Line(ID52),
      Line(IDRep),
      Line(IDShort),
      Line(IDQm),
      Line(IDShort) \o Line(ID52),
      <<"I"," ">> \o PeerIdLiteral \o ID52 \o <<" ","u","p","\n">> }

\* stdout of `docker inspect --format='{{.State.StartedAt}}'` (line 50)
\* (the text only becomes part of the grep command line of line 65)
InspectOutputs == { <<"2","0","2","5","Z","\n">> }

\* stdout of `docker inspect chiral-peer1 --format {{.Config.Cmd}}` (line 124)
CmdOutputs == { <<>>, <<"[">> \o ID52 \o <<"]">>, <<"[">> \o IDRep \o <<"]">> }

\* stdout and stderr of `docker logs <container>` (lines 140, 159)
LogStdouts ==
    { <<>>,
      SubSeq(MarkerConnectedTo, 1, 9),
      MarkerTotalConnected \o <<":"," ","3">>,
      MarkerDCUtR \o MarkerDCUtR \o <<" ">> \o MarkerAutoNAT }
LogStderrs ==
    { <<>>,
      SubSeq(MarkerConnectedTo, 10, 12) \o <<" ">> \o MarkerDCUtR }

\* stdout and stderr of `docker logs chiral-peer1` (line 159)
Peer1Stdouts ==
    LogStdouts \cup
    { MarkerReachability \o <<" ","d","c","u","t","r"," ">> \o SubSeq(MarkerDCUtR, 1, 3) }
Peer1Stderrs ==
    LogStderrs \cup
    { SubSeq(MarkerDCUtR, 4, 5) \o <<" ">> \o MarkerReachability \o MarkerReachability }

\* contents of docker-compose.nat-test.yml before the run
Docs ==
    { <<>>,
      <<"-","-","b","=">> \o PLACEHOLDER \o <<"\n">>,
      PLACEHOLDER \o PLACEHOLDER,
      <<"#"," ">> \o ID52 \o <<"\n">> \o PLACEHOLDER,
      PeerIdPrefix \o PLACEHOLDER }

\* the alphabet and the texts of the rewriter law
RTChars == {"a", "b"}
RECURSIVE TextsOf(_)
TextsOf(n) ==
    IF n = 0 THEN { <<>> }
    ELSE LET D == TextsOf(n - 1)
         IN  D \cup { d \o <<c>> : d \in D, c \in RTChars }

RTTexts == TextsOf(MaxLen)

\* t is a token of the form 12D3[A-Za-z0-9]{44,}
IsToken(t) ==
    /\ Len(t) >= 48
    /\ SubSeq(t, 1, 4) = <<"1","2","D","3">>
    /\ \A j \in 5..Len(t) : t[j] \in Upper \cup Lower \cup Digit

\* the tokens that follow a `local_peer_id=` somewhere in s, each with the
\* position of that `local_peer_id=`
TokensIn(s) ==
    LET L == Len(PeerIdLiteral)
        At == { i \in 1..Len(s) :
                  i + L - 1 <= Len(s) /\ SubSeq(s, i, i + L - 1) = PeerIdLiteral }
    IN  UNION { { <<i, SubSeq(s, i + L, i + L + n - 1)>> :
                    n \in { m \in 1..(Len(s) - i - L + 1) :
                              IsToken(SubSeq(s, i + L, i + L + m - 1)) } } :
                i \in At }

\* the token of s that starts leftmost and, among those, is the longest
FirstToken(s) ==
    LET T == TokensIn(s)
        x == CHOOSE x \in T : \A y \in T :
                 x[1] < y[1] \/ (x[1] = y[1] /\ Len(x[2]) >= Len(y[2]))
    IN  x[2]

HasToken(s) == TokensIn(s) # {}

\* s is not empty and holds `local_peer_id=`, but no token follows one
Malformed(s) ==
    /\ s # <<>>
    /\ \E i \in 1..Len(s) :
          /\ i + 13 <= Len(s)
          /\ SubSeq(s, i, i + 13) = <<"l","o","c","a","l","_","p","e","e","r","_","i","d","=">>
    /\ ~HasToken(s)

\* what each possible log output holds, worked out once
LogFacts ==
    [ l \in GrepOutputs |->
        [ seen |-> HasToken(l),
          malformed |-> Malformed(l),
          token |-> IF HasToken(l) THEN FirstToken(l) ELSE <<>> ] ]

-----------------------------------------------------------------------------
(* main() of nat_test.rs *)

extractVars == <<start_time, attempt, peer_id, reported_attempt, leastMatch,
                 matchToken, peer_id_line, onlyMalformed>>
configVars == <<file, compose_content, updated_content, original_content, writes>>
verifyVars == <<peer1_ok, container, combined, connected, counts,
                peer1_combined>>
otherVars == <<file0, calls, rt>>

Idle == [stage |-> "off", doc |-> <<>>, P |-> <<>>, V |-> <<>>, cur |-> <<>>]

Init ==
    /\ pc = "CleanupDown"
    /\ result = "Running"
    /\ err = ""
    /\ file \in Docs
    /\ file0 = file
    /\ start_time = <<>>
    /\ attempt = 0
    /\ peer_id = <<>>
    /\ reported_attempt = 0
    /\ compose_content = <<>>
    /\ updated_content = <<>>
    /\ original_content = <<>>
    /\ peer1_ok = "unset"
    /\ container = 1
    /\ combined = <<>>
    /\ connected = FALSE
    /\ counts = <<>>
    /\ events = <<>>
    /\ writes = <<>>
    /\ entered = <<>>
    /\ happened = {}
    /\ leastMatch = 0
    /\ matchToken = <<>>
    /\ last = <<"none", "none">>
    /\ peer_id_line = <<>>
    /\ peer1_combined = <<>>
    /\ onlyMalformed = TRUE
    /\ calls = <<>>
    /\ rt = Idle

\* variant: the error is reported but the process ends with status zero
Abort_ExitZero(msg) ==
    /\ pc' = "Exit"
    /\ result' = "Ok"
    /\ err' = msg

\* `return Err(..)` and the `?` operator: main returns the error
Abort(msg) ==
    /\ pc' = "Exit"
    /\ result' = "Err"
    /\ err' = msg

Continue(next) ==
    /\ pc' = next
    /\ UNCHANGED <<result, err>>

Note(what) == happened' = happened \cup {what}

\* lines 14-16: compose down -v, the Result is discarded
CleanupDown ==
    /\ pc = "CleanupDown"
    /\ \E o \in Outcomes :
        /\ last' = <<"compose_down", o>>
        /\ IF o = "launch_fail" THEN Note("launch_fail:cleanup")
           ELSE UNCHANGED happened
    /\ events' = Append(events, "cmd:compose_down")
    /\ entered' = Append(entered, "Cleanup")
    /\ Continue("CleanupRm")
    /\ UNCHANGED <<extractVars, configVars, verifyVars, otherVars>>

\* lines 19-21: rm -f chiral-bootstrap, the Result is discarded
CleanupRm ==
    /\ pc = "CleanupRm"
    /\ \E o \in Outcomes :
        /\ last' = <<"rm", o>>
        /\ IF o = "launch_fail" THEN Note("launch_fail:cleanup")
           ELSE UNCHANGED happened
    /\ events' = Append(events, "cmd:rm")
    /\ Continue("ImageBuild")
    /\ UNCHANGED <<entered, extractVars, configVars, verifyVars, otherVars>>

\* variant: the exit status is not looked at
FatalCommand_IgnoreStatus(name, msg, next) ==
    /\ \E o \in Outcomes :
        /\ last' = <<name, o>>
        /\ CASE o = "launch_fail" -> Note("launch_fail:" \o name) /\ Abort(ErrIo)
             [] o = "failure" -> Note("status:" \o name) /\ Continue(next)
             [] o = "success" -> UNCHANGED happened /\ Continue(next)
    /\ events' = Append(events, "cmd:" \o name)

\* a command whose launch failure and whose failure status both end main
\* (lines 25-32, 37-44, 104-111)
FatalCommand(name, msg, next) ==
    /\ \E o \in Outcomes :
        /\ last' = <<name, o>>
        /\ CASE o = "launch_fail" -> Note("launch_fail:" \o name) /\ Abort(ErrIo)
             [] o = "failure" -> Note("status:" \o name) /\ Abort(msg)
             [] o = "success" -> UNCHANGED happened /\ Continue(next)
    /\ events' = Append(events, "cmd:" \o name)

\* lines 25-32: docker build
ImageBuild ==
    /\ pc = "ImageBuild"
    /\ FatalCommand("build", ErrBuild, "BootstrapStart")
    /\ entered' = Append(entered, "ImageBuild")
    /\ UNCHANGED <<extractVars, configVars, verifyVars, otherVars>>

\* lines 37-44: compose up -d bootstrap
BootstrapStart ==
    /\ pc = "BootstrapStart"
    /\ FatalCommand("up_bootstrap", ErrBootstrap, "InspectStart")
    /\ entered' = Append(entered, "BootstrapStart")
    /\ UNCHANGED <<extractVars, configVars, verifyVars, otherVars>>

\* variant: a start-time inspect that cannot be launched is passed over
InspectStart_IgnoreLaunch ==
    /\ pc = "InspectStart"
    /\ events' = Append(events, "cmd:inspect_start")
    /\ entered' = Append(entered, "PeerIdExtraction")
    /\ \E o \in Outcomes :
        /\ last' = <<"inspect_start", o>>
        /\ IF o = "launch_fail"
           THEN /\ Note("launch_fail:inspect_start")
                /\ start_time' = <<>>
           ELSE /\ \E out \in InspectOutputs : start_time' = trim(out)
                /\ UNCHANGED happened
        /\ attempt' = 1
        /\ Continue("ExtractSleep")
    /\ UNCHANGED <<peer_id, reported_attempt, leastMatch, matchToken,
                   peer_id_line, onlyMalformed, configVars, verifyVars,
                   otherVars>>

\* lines 50-59: docker inspect of the start time; the loop starts at 1
InspectStart ==
    /\ pc = "InspectStart"
    /\ events' = Append(events, "cmd:inspect_start")
    /\ entered' = Append(entered, "PeerIdExtraction")
    /\ \E o \in Outcomes :
        /\ last' = <<"inspect_start", o>>
        /\ IF o = "launch_fail"
           THEN /\ Note("launch_fail:inspect_start")
                /\ Abort(ErrIo)
                /\ UNCHANGED <<start_time, attempt>>
           ELSE /\ \E out \in InspectOutputs : start_time' = trim(out)
                /\ attempt' = 1
                /\ Continue("ExtractSleep")
                /\ UNCHANGED happened
    /\ UNCHANGED <<peer_id, reported_attempt, leastMatch, matchToken,
                   peer_id_line, onlyMalformed, configVars, verifyVars,
                   otherVars>>

\* line 62: thread::sleep(1s) at the head of every iteration
ExtractSleep ==
    /\ pc = "ExtractSleep"
    /\ events' = Append(events, "sleep:1")
    /\ Continue("ExtractQuery")
    /\ UNCHANGED <<entered, happened, last, extractVars, configVars,
                   verifyVars, otherVars>>

\* lines 65-91: one log query, the match, the break or the next iteration
ExtractQuery ==
    /\ pc = "ExtractQuery"
    /\ events' = Append(events, "cmd:grep")
    /\ \E o \in Outcomes :
        /\ last' = <<"grep", o>>
        /\ IF o = "launch_fail"
           THEN /\ Note("launch_fail:grep")
                /\ Abort(ErrIo)
                /\ UNCHANGED <<attempt, peer_id, reported_attempt,
                               leastMatch, matchToken, peer_id_line,
                               onlyMalformed>>
           ELSE \E line \in GrepOutputs :
                LET captures == peer_id_regex_captures(line)
                    found == trim(line) # <<>> /\ captures # <<>>
                    seen == LogFacts[line].seen
                IN  /\ peer_id_line' = line
                    /\ onlyMalformed' = (onlyMalformed /\ LogFacts[line].malformed)
                    /\ IF leastMatch = 0 /\ seen
                       THEN leastMatch' = attempt /\ matchToken' = LogFacts[line].token
                       ELSE UNCHANGED <<leastMatch, matchToken>>
                    /\ IF leastMatch = 0 /\ ~seen /\ attempt = 20
                       THEN Note("extract:timeout")
                       ELSE UNCHANGED happened
                    /\ IF found
                       THEN /\ peer_id' = captures
                            /\ reported_attempt' = attempt
                            /\ Continue("ExtractResult")
                            /\ UNCHANGED attempt
                       ELSE /\ UNCHANGED <<peer_id, reported_attempt>>
                            /\ IF attempt = MaxAttempts
                               THEN Continue("ExtractResult") /\ UNCHANGED attempt
                               ELSE Continue("ExtractSleep") /\ attempt' = attempt + 1
    /\ UNCHANGED <<entered, start_time, configVars, verifyVars, otherVars>>

\* variant: without a peer id main waits instead of returning the error
ExtractResult_Wait ==
    /\ pc = "ExtractResult"
    /\ IF peer_id = <<>>
       THEN UNCHANGED vars
       ELSE /\ Continue("ConfigRead")
            /\ peer_id_line' = <<>>
            /\ UNCHANGED <<events, entered, happened, last, start_time,
                           attempt, peer_id, reported_attempt, leastMatch,
                           matchToken, onlyMalformed, configVars, verifyVars,
                           otherVars>>

\* line 93: peer_id.ok_or(..)?; the locals of the loop body of line 61 no
\* longer exist
ExtractResult ==
    /\ pc = "ExtractResult"
    /\ IF peer_id = <<>> THEN Abort(ErrTimeout) ELSE Continue("ConfigRead")
    /\ peer_id_line' = <<>>
    /\ UNCHANGED <<events, entered, happened, last, start_time, attempt,
                   peer_id, reported_attempt, leastMatch, matchToken,
                   onlyMalformed, configVars, verifyVars, otherVars>>

\* line 98: compose_content.replace("BOOTSTRAP_PEER_ID", &peer_id), for any
\* placeholder and value
apply(doc, placeholder, value) == replace(doc, placeholder, value)

\* line 115: updated_content.replace(&peer_id, "BOOTSTRAP_PEER_ID"), for any
\* value and placeholder
restore(doc, value, placeholder) == replace(doc, value, placeholder)

\* fs::write (lines 99, 116): the content is stored, or the call fails and
\* leaves the file as it was or truncated
FsWrite(content, next) ==
    /\ events' = Append(events, "fs:write")
    /\ writes' = Append(writes, content)
    /\ \/ /\ file' = content
          /\ Continue(next)
          /\ UNCHANGED happened
       \/ /\ file' \in {file, <<>>}
          /\ Note("io:write")
          /\ Abort(ErrIo)

\* line 97: fs::read_to_string
ConfigRead ==
    /\ pc = "ConfigRead"
    /\ events' = Append(events, "fs:read")
    /\ entered' = Append(entered, "ConfigRewrite")
    /\ \/ /\ compose_content' = file
          /\ Continue("ConfigWrite")
          /\ UNCHANGED happened
       \/ /\ Note("io:read")
          /\ Abort(ErrIo)
          /\ UNCHANGED compose_content
    /\ UNCHANGED <<last, extractVars, file, updated_content,
                   original_content, writes, verifyVars, otherVars>>

\* lines 98-99: the placeholder is replaced and the document written
ConfigWrite ==
    /\ pc = "ConfigWrite"
    /\ updated_content' = apply(compose_content, PLACEHOLDER, peer_id[1])
    /\ FsWrite(updated_content', "AllPeersStart")
    /\ UNCHANGED <<entered, last, extractVars, compose_content,
                   original_content, verifyVars, otherVars>>

\* variant: the document is not restored after the peers have started
AllPeersStart_SkipRestore ==
    /\ pc = "AllPeersStart"
    /\ FatalCommand("up_all", ErrPeers, "StabilizationWait")
    /\ entered' = Append(entered, "AllPeersStart")
    /\ UNCHANGED <<extractVars, configVars, verifyVars, otherVars>>

\* variant: when the start fails the document read at line 97 is written
\* back before main returns
AllPeersStart_RestoreOnFailure ==
    /\ pc = "AllPeersStart"
    /\ events' = Append(events, "cmd:up_all")
    /\ entered' = Append(entered, "AllPeersStart")
    /\ \E o \in Outcomes :
        /\ last' = <<"up_all", o>>
        /\ CASE o = "launch_fail" ->
                  /\ Note("launch_fail:up_all") /\ Abort(ErrIo)
                  /\ file' = compose_content
             [] o = "failure" ->
                  /\ Note("status:up_all") /\ Abort(ErrPeers)
                  /\ file' = compose_content
             [] o = "success" ->
                  /\ UNCHANGED happened /\ Continue("ConfigRestore")
                  /\ UNCHANGED file
    /\ UNCHANGED <<extractVars, compose_content, updated_content,
                   original_content, writes, verifyVars, otherVars>>

\* lines 104-111: compose up -d
AllPeersStart ==
    /\ pc = "AllPeersStart"
    /\ FatalCommand("up_all", ErrPeers, "ConfigRestore")
    /\ entered' = Append(entered, "AllPeersStart")
    /\ UNCHANGED <<extractVars, configVars, verifyVars, otherVars>>

\* variant: the document is read again and the inverse replacement is made
\* on what was read
ConfigRestore_Reread ==
    /\ pc = "ConfigRestore"
    /\ original_content' = restore(file, peer_id[1], PLACEHOLDER)
    /\ events' = events \o <<"fs:read", "fs:write">>
    /\ writes' = Append(writes, original_content')
    /\ \/ /\ file' = original_content'
          /\ Continue("StabilizationWait")
          /\ UNCHANGED happened
       \/ /\ file' \in {file, <<>>}
          /\ Note("io:write")
          /\ Abort(ErrIo)
    /\ entered' = Append(entered, "ConfigRestore")
    /\ UNCHANGED <<last, extractVars, compose_content, updated_content,
                   verifyVars, otherVars>>

\* lines 115-116: the inverse replacement on updated_content, written back
ConfigRestore ==
    /\ pc = "ConfigRestore"
    /\ original_content' = restore(updated_content, peer_id[1], PLACEHOLDER)
    /\ FsWrite(original_content', "StabilizationWait")
    /\ entered' = Append(entered, "ConfigRestore")
    /\ UNCHANGED <<last, extractVars, compose_content, updated_content,
                   verifyVars, otherVars>>

\* line 120: thread::sleep(60s)
StabilizationWait ==
    /\ pc = "StabilizationWait"
    /\ events' = Append(events, "sleep:60")
    /\ entered' = Append(entered, "StabilizationWait")
    /\ Continue("VerifyInspect")
    /\ UNCHANGED <<happened, last, extractVars, configVars, verifyVars,
                   otherVars>>

\* variant: a command line without the peer id is an error
VerifyInspect_Strict ==
    /\ pc = "VerifyInspect"
    /\ events' = Append(events, "cmd:inspect_peer1")
    /\ entered' = Append(entered, "VerificationReport")
    /\ \E o \in Outcomes :
        /\ last' = <<"inspect_peer1", o>>
        /\ IF o = "launch_fail"
           THEN /\ Note("launch_fail:inspect_peer1")
                /\ Abort(ErrIo)
                /\ UNCHANGED peer1_ok
           ELSE /\ \E cmd_str \in CmdOutputs :
                    /\ peer1_ok' = IF contains(cmd_str, peer_id[1])
                                   THEN "ok" ELSE "warning"
                    /\ IF contains(cmd_str, peer_id[1])
                       THEN Continue("CheckConnections")
                       ELSE Abort("Peer id mismatch")
                /\ UNCHANGED happened
    /\ UNCHANGED <<extractVars, configVars, container, combined, connected,
                   counts, peer1_combined, otherVars>>

\* lines 124-135: the command line of peer1 is compared with the peer id
VerifyInspect ==
    /\ pc = "VerifyInspect"
    /\ events' = Append(events, "cmd:inspect_peer1")
    /\ entered' = Append(entered, "VerificationReport")
    /\ \E o \in Outcomes :
        /\ last' = <<"inspect_peer1", o>>
        /\ IF o = "launch_fail"
           THEN /\ Note("launch_fail:inspect_peer1")
                /\ Abort(ErrIo)
                /\ UNCHANGED peer1_ok
           ELSE /\ \E cmd_str \in CmdOutputs :
                    peer1_ok' = IF contains(cmd_str, peer_id[1])
                                THEN "ok" ELSE "warning"
                /\ Continue("CheckConnections")
                /\ UNCHANGED happened
    /\ UNCHANGED <<extractVars, configVars, container, combined, connected,
                   counts, peer1_combined, otherVars>>

\* variant: only the first marker is looked for
Classify_FirstOnly(text) == contains(text, MarkerConnectedTo)

\* line 150: the classification of one container's log text
Classify(text) ==
    contains(text, MarkerConnectedTo) \/ contains(text, MarkerTotalConnected)

\* variant: a log fetch that reports a failure status ends main
CheckConnections_CheckStatus ==
    /\ pc = "CheckConnections"
    /\ events' = Append(events, "cmd:logs")
    /\ \E o \in Outcomes :
        /\ last' = <<"logs", o>>
        /\ IF o = "launch_fail"
           THEN /\ Note("launch_fail:logs")
                /\ Abort(ErrIo)
                /\ UNCHANGED <<container, combined, connected>>
           ELSE /\ \E stdout \in LogStdouts, stderr \in LogStderrs :
                    /\ combined' = stdout \o stderr
                    /\ connected' = Classify(combined')
                /\ container' = container + 1
                /\ IF o = "failure" THEN Abort("Log fetch failed")
                   ELSE IF container = Len(Containers)
                   THEN Continue("Peer1Logs")
                   ELSE Continue("CheckConnections")
                /\ UNCHANGED happened
    /\ UNCHANGED <<entered, extractVars, configVars, peer1_ok, counts,
                   peer1_combined, otherVars>>

\* lines 139-154: one iteration of the loop over the four containers
CheckConnections ==
    /\ pc = "CheckConnections"
    /\ events' = Append(events, "cmd:logs")
    /\ \E o \in Outcomes :
        /\ last' = <<"logs", o>>
        /\ IF o = "launch_fail"
           THEN /\ Note("launch_fail:logs")
                /\ Abort(ErrIo)
                /\ UNCHANGED <<container, combined, connected>>
           ELSE /\ \E stdout \in LogStdouts, stderr \in LogStderrs :
                    /\ combined' = stdout \o stderr
                    /\ connected' = Classify(combined')
                /\ container' = container + 1
                /\ IF container = Len(Containers)
                   THEN Continue("Peer1Logs")
                   ELSE Continue("CheckConnections")
                /\ UNCHANGED happened
    /\ UNCHANGED <<entered, extractVars, configVars, peer1_ok, counts, peer1_combined,
                   otherVars>>

\* lines 159-185: the marker counts of peer1's log text, then Ok(()); the
\* locals of the loop body of line 139 no longer exist
Peer1Logs ==
    /\ pc = "Peer1Logs"
    /\ events' = Append(events, "cmd:logs_peer1")
    /\ \E o \in Outcomes :
        /\ last' = <<"logs_peer1", o>>
        /\ IF o = "launch_fail"
           THEN /\ Note("launch_fail:logs_peer1")
                /\ Abort(ErrIo)
                /\ UNCHANGED <<counts, peer1_combined>>
           ELSE /\ \E stdout \in Peer1Stdouts, stderr \in Peer1Stderrs :
                    peer1_combined' = stdout \o stderr
                /\ counts' = << matches_count(peer1_combined', MarkerDCUtR),
                                matches_count(peer1_combined', MarkerAutoNAT),
                                matches_count(peer1_combined', MarkerReachability) >>
                /\ pc' = "Exit"
                /\ result' = "Ok"
                /\ UNCHANGED <<err, happened>>
    /\ combined' = <<>>
    /\ connected' = FALSE
    /\ UNCHANGED <<entered, extractVars, configVars, peer1_ok, container,
                   otherVars>>

Next ==
    \/ CleanupDown
    \/ CleanupRm
    \/ ImageBuild
    \/ BootstrapStart
    \/ InspectStart
    \/ ExtractSleep
    \/ ExtractQuery
    \/ ExtractResult
    \/ ConfigRead
    \/ ConfigWrite
    \/ AllPeersStart
    \/ ConfigRestore
    \/ StabilizationWait
    \/ VerifyInspect
    \/ CheckConnections
    \/ Peer1Logs

Spec == Init /\ [][Next]_vars

\* main is one sequential thread: as long as every command and every sleep
\* returns, its next statement is executed
SpecFair == Spec /\ WF_vars(Next)

-----------------------------------------------------------------------------
(* The rewriter on its own: apply, then restore, for every document,       *)
(* placeholder and value over a small alphabet                             *)

harnessVars == <<pc, result, err, file, start_time, attempt, peer_id,
                 reported_attempt, compose_content, updated_content,
                 original_content, peer1_ok, container, combined, connected,
                 counts, file0, events, writes, entered, happened,
                 leastMatch, matchToken, last, peer_id_line,
                 peer1_combined, onlyMalformed>>

\* main() is not running
HarnessOff ==
    /\ pc = "Off"
    /\ result = "Running"
    /\ err = ""
    /\ file = <<>>
    /\ file0 = <<>>
    /\ start_time = <<>>
    /\ attempt = 0
    /\ peer_id = <<>>
    /\ reported_attempt = 0
    /\ compose_content = <<>>
    /\ updated_content = <<>>
    /\ original_content = <<>>
    /\ peer1_ok = "unset"
    /\ container = 1
    /\ combined = <<>>
    /\ connected = FALSE
    /\ counts = <<>>
    /\ events = <<>>
    /\ writes = <<>>
    /\ entered = <<>>
    /\ happened = {}
    /\ leastMatch = 0
    /\ matchToken = <<>>
    /\ last = <<"none", "none">>
    /\ peer_id_line = <<>>
    /\ peer1_combined = <<>>
    /\ onlyMalformed = TRUE

InitRT ==
    /\ HarnessOff
    /\ calls = <<>>
    /\ \E d \in RTTexts, p \in RTTexts, v \in RTTexts :
        rt = [stage |-> "doc", doc |-> d, P |-> p, V |-> v, cur |-> d]

RTApply ==
    /\ rt.stage = "doc"
    /\ rt' = [rt EXCEPT !.stage = "applied", !.cur = apply(rt.doc, rt.P, rt.V)]
    /\ UNCHANGED <<harnessVars, calls>>

RTRestore ==
    /\ rt.stage = "applied"
    /\ rt' = [rt EXCEPT !.stage = "restored", !.cur = restore(rt.cur, rt.V, rt.P)]
    /\ UNCHANGED <<harnessVars, calls>>

NextRT == RTApply \/ RTRestore

SpecRT == InitRT /\ [][NextRT]_vars

-----------------------------------------------------------------------------
(* bootstrap.rs: the two accessors, called in any order *)

\* lines 6-23: the vec! holds one address, the others are commented out
get_bootstrap_nodes == << BootstrapNode0 >>

\* variant: the command has a list of its own
get_bootstrap_nodes_command_Own == << >>

\* lines 25-28: the Tauri command returns get_bootstrap_nodes()
get_bootstrap_nodes_command == get_bootstrap_nodes

InitBootstrap ==
    /\ HarnessOff
    /\ rt = Idle
    /\ calls = <<>>

CallGetBootstrapNodes ==
    /\ Len(calls) < MaxCalls
    /\ calls' = Append(calls, [fn |-> "get_bootstrap_nodes",
                               ret |-> get_bootstrap_nodes])
    /\ UNCHANGED <<harnessVars, rt>>

CallGetBootstrapNodesCommand ==
    /\ Len(calls) < MaxCalls
    /\ calls' = Append(calls, [fn |-> "get_bootstrap_nodes_command",
                               ret |-> get_bootstrap_nodes_command])
    /\ UNCHANGED <<harnessVars, rt>>

NextBootstrap == CallGetBootstrapNodes \/ CallGetBootstrapNodesCommand

SpecBootstrap == InitBootstrap /\ [][NextBootstrap]_vars

-----------------------------------------------------------------------------
(* Properties *)

Terminated == pc = "Exit"
Completed == pc = "Exit" /\ result = "Ok"

\* C1: after a run that completes the verification report, the persisted
\* configuration document equals its content before the run, and outside
\* the window between the two writes it never differs from it
C1_DocumentRestored ==
    /\ Completed => file = file0
    /\ Len(writes) = 0 => file = file0

\* C2: round-trip law of the rewriter: when the value does not occur in the
\* document and the placeholder is not a substring of the value, apply
\* followed by restore gives back the document
C2_RoundTripLaw ==
    ( /\ rt.stage = "restored"
      /\ \A i \in 1..(Len(rt.doc) + 1) : ~MatchAt(rt.doc, rt.V, i)
      /\ \A i \in 1..(Len(rt.V) + 1) : ~MatchAt(rt.V, rt.P, i) )
    => rt.cur = rt.doc

\* number of times the operation e was issued
Count(e) == Cardinality({ i \in DOMAIN events : events[i] = e })

IsPrefix(a, b) == Len(a) <= Len(b) /\ SubSeq(b, 1, Len(a)) = a

\* C3: once an attempt's log output holds `local_peer_id=` followed by a
\* token of the form 12D3[A-Za-z0-9]{44,}, the first such attempt k is
\* within 1..20, the extractor's result is that token, the reported attempt
\* is k, and exactly k log queries and k one-second sleeps are ever issued
C3_ExtractionSuccess ==
    leastMatch # 0 =>
        /\ leastMatch \in 1..20
        /\ peer_id = << matchToken >>
        /\ IsToken(matchToken)
        /\ reported_attempt = leastMatch
        /\ Count("cmd:grep") = leastMatch
        /\ Count("sleep:1") = leastMatch

\* the extraction succeeds at the third attempt, on the full token, and the
\* run has gone on
C3_Witness ==
    /\ leastMatch = 3
    /\ peer_id = << ID52 >>
    /\ pc = "StabilizationWait"

\* C4: as long as no log output has held a token, the run does not leave the
\* extraction; the loop ends only after 20 queries, each one preceded by a
\* one-second sleep, and the run then ends with the extraction-timeout error
\* and its hint, with no file access and no later command
C4_ExtractionTimeout ==
    leastMatch = 0 =>
        /\ pc \in {"CleanupDown", "CleanupRm", "ImageBuild", "BootstrapStart",
                   "InspectStart", "ExtractSleep", "ExtractQuery",
                   "ExtractResult", "Exit"}
        /\ Count("cmd:grep") <= 20
        /\ \A i \in DOMAIN events :
              events[i] = "cmd:grep" => i > 1 /\ events[i - 1] = "sleep:1"
        /\ Count("fs:read") = 0 /\ Count("fs:write") = 0 /\ Count("cmd:up_all") = 0
        /\ pc = "ExtractResult" =>
              /\ Count("cmd:grep") = 20
              /\ Count("sleep:1") = 20
              /\ peer_id = <<>>
        /\ (pc = "Exit" /\ last = <<"grep", "success">>) \/
           (pc = "Exit" /\ last = <<"grep", "failure">>) =>
              /\ result = "Err"
              /\ err = "Could not extract peer ID from bootstrap logs after 20 seconds. Check container logs with: docker logs chiral-bootstrap"
              /\ Count("cmd:grep") = 20
              /\ Count("sleep:1") = 20
              /\ events[Len(events)] = "cmd:grep"
              /\ entered = <<"Cleanup", "ImageBuild", "BootstrapStart", "PeerIdExtraction">>

\* twenty log outputs without a token, and the run has ended
C4_Witness ==
    /\ leastMatch = 0
    /\ pc = "Exit"
    /\ last[1] = "grep"
    /\ last[2] # "launch_fail"
    /\ Count("cmd:grep") = 20

\* the outcomes the exit status is claimed to depend on
FatalClaimed ==
    { "status:build", "launch_fail:build",
      "status:up_bootstrap", "launch_fail:up_bootstrap",
      "extract:timeout",
      "status:up_all", "launch_fail:up_all" }

\* the outcomes that end main with an error
FatalAmended ==
    FatalClaimed \cup
    { "launch_fail:inspect_start", "launch_fail:grep",
      "launch_fail:inspect_peer1", "launch_fail:logs", "launch_fail:logs_peer1",
      "io:read", "io:write" }

\* C5 as stated: the run ends with a non-zero status exactly when the build,
\* the bootstrap start, the extraction or the start of all peers failed
C5_ExitStatus ==
    Terminated => (result = "Err" <=> happened \cap FatalClaimed # {})

\* C5 amended: the run ends with a non-zero status exactly when the build,
\* the bootstrap start, the extraction or the start of all peers failed, or
\* a command other than the two cleanup commands could not be launched, or
\* the read or a write of the configuration document failed; whatever the
\* connectivity and configuration checks report
C5_ExitStatusAmended ==
    Terminated => (result = "Err" <=> happened \cap FatalAmended # {})

\* a cleanup command could not be launched, the checks warn, and the run
\* ends with status zero
C5_Witness ==
    /\ Completed
    /\ "launch_fail:cleanup" \in happened
    /\ peer1_ok = "warning"

StatusFailed(name, state, msg) ==
    ("status:" \o name) \in happened =>
        /\ pc = "Exit"
        /\ result = "Err"
        /\ err = msg
        /\ events[Len(events)] = "cmd:" \o name
        /\ entered[Len(entered)] = state

\* C6: when the command of ImageBuild, BootstrapStart or AllPeersStart
\* reports a failure status, the run has ended with the error of that step,
\* and that command is the last operation of the run
C6_FatalStatus ==
    /\ StatusFailed("build", "ImageBuild", "Build failed")
    /\ StatusFailed("up_bootstrap", "BootstrapStart", "Bootstrap start failed")
    /\ StatusFailed("up_all", "AllPeersStart", "Peer start failed")

\* the start of all peers reports a failure status
C6_Witness ==
    /\ "status:up_all" \in happened
    /\ pc = "Exit"
    /\ Len(writes) = 1

Order ==
    <<"Cleanup", "ImageBuild", "BootstrapStart", "PeerIdExtraction",
      "ConfigRewrite", "AllPeersStart", "ConfigRestore", "StabilizationWait",
      "VerificationReport">>

\* the operations of a complete run whose extraction takes k attempts
Trace(k) ==
    <<"cmd:compose_down", "cmd:rm", "cmd:build", "cmd:up_bootstrap",
      "cmd:inspect_start">>
    \o Rep(<<"sleep:1", "cmd:grep">>, k)
    \o <<"fs:read", "fs:write", "cmd:up_all", "fs:write", "sleep:60",
         "cmd:inspect_peer1", "cmd:logs", "cmd:logs", "cmd:logs", "cmd:logs",
         "cmd:logs_peer1">>

\* C7: the orchestration states are entered in the one order of the
\* pipeline, none skipped and none twice, the operations of a state are all
\* issued before those of the next, and a completed run has entered all
\* nine
C7_LinearOrder ==
    /\ IsPrefix(entered, Order)
    /\ \E k \in 1..20 : IsPrefix(events, Trace(k))
    /\ Completed => entered = Order /\ \E k \in 1..20 : events = Trace(k)

\* a completed run
C7_Witness ==
    /\ Completed
    /\ Len(entered) = 9
    /\ Count("cmd:grep") = 2

FirstIndex(e) == CHOOSE i \in DOMAIN events : events[i] = e /\ \A j \in 1..(i - 1) : events[j] # e
LastIndex(e) == CHOOSE i \in DOMAIN events : events[i] = e /\ \A j \in (i + 1)..Len(events) : events[j] # e

\* C8: when `compose up -d` is issued the rewritten document has been
\* written and is the content of the file; the restore write is made only
\* after that command reported success; the file is read once, before the
\* first write, and what the restore writes is the inverse replacement made
\* on the rewritten content that was written
C8_RewriteRestoreOrdering ==
    /\ pc = "AllPeersStart" => /\ Len(writes) = 1
                               /\ file = writes[1]
                               /\ Count("cmd:up_all") = 0
    /\ Count("cmd:up_all") > 0 =>
          /\ Count("fs:write") >= 1
          /\ FirstIndex("fs:write") < FirstIndex("cmd:up_all")
          /\ writes[1] = replace(file0, PLACEHOLDER, peer_id[1])
    /\ Len(writes) = 2 =>
          /\ Count("cmd:up_all") = 1
          /\ FirstIndex("cmd:up_all") < LastIndex("fs:write")
          /\ "status:up_all" \notin happened
          /\ "launch_fail:up_all" \notin happened
          /\ Count("fs:read") = 1
          /\ FirstIndex("fs:read") < FirstIndex("fs:write")
          /\ writes[2] = replace(writes[1], peer_id[1], PLACEHOLDER)

\* the restore has been written for a document with one placeholder
C8_Witness ==
    /\ Len(writes) = 2
    /\ pc = "StabilizationWait"
    /\ writes[1] = <<"-","-","b","=">> \o ID52 \o <<"\n">>
    /\ file = <<"-","-","b","=">> \o PLACEHOLDER \o <<"\n">>

\* pat occurs somewhere in text
Occurs(text, pat) ==
    \E i \in 1..Len(text) :
        /\ i + Len(pat) - 1 <= Len(text)
        /\ \A j \in 1..Len(pat) : text[i + j - 1] = pat[j]

\* C9: the classification of a log text is 'connected' exactly when the
\* text holds "Connected to" or "Total connected peers"; a run never ends
\* at a log fetch of the connection check unless the command could not be
\* launched
C9_Classifier ==
    /\ connected <=> ( \/ Occurs(combined, <<"C","o","n","n","e","c","t","e","d"," ","t","o">>)
                       \/ Occurs(combined, <<"T","o","t","a","l"," ","c","o","n","n","e","c","t","e","d"," ","p","e","e","r","s">>) )
    /\ (pc = "Exit" /\ last[1] = "logs") => last[2] = "launch_fail"

\* a text that holds only the second marker was classified as connected
C9_Witness ==
    /\ pc = "Peer1Logs"
    /\ connected
    /\ ~Occurs(combined, MarkerConnectedTo)

\* C10: every call of either accessor returns the same non-empty list
C10_StaticBootstrap ==
    \A i \in DOMAIN calls :
        /\ Len(calls[i].ret) > 0
        /\ \A j \in DOMAIN calls : calls[j].ret = calls[i].ret

\* both accessors have been called, more than once
C10_Witness ==
    /\ Len(calls) >= 4
    /\ \E i, j \in DOMAIN calls :
        /\ calls[i].fn = "get_bootstrap_nodes"
        /\ calls[j].fn = "get_bootstrap_nodes_command"


Entered(state) == \E i \in DOMAIN entered : entered[i] = state

\* C11 as stated: once VerificationReport is reached the run does not end
\* with an error, whatever the inspect and log-fetch commands do
C11_VerificationNeverFails ==
    Entered("VerificationReport") => result # "Err"

\* C11 amended: once VerificationReport is reached, the run ends with an
\* error only when an inspect or log-fetch command could not be launched; a
\* mismatching command line, missing markers and a failure status leave it
\* to end with success
C11_VerificationAmended ==
    /\ (Entered("VerificationReport") /\ result = "Err") =>
          /\ last[1] \in {"inspect_peer1", "logs", "logs_peer1"}
          /\ last[2] = "launch_fail"
          /\ err = "io::Error"
    /\ (Entered("VerificationReport") /\ Terminated /\ last[2] # "launch_fail") =>
          /\ result = "Ok"
          /\ last[1] = "logs_peer1"

\* the command line mismatches, no marker is found, the last fetch reports
\* a failure status, and the run ends with success
C11_Witness ==
    /\ Completed
    /\ peer1_ok = "warning"
    /\ last = <<"logs_peer1", "failure">>
    /\ counts = <<0, 0, 0>>

\* C12 as stated: in every state, a command that cannot be launched ends
\* the run with an error
C12_LaunchFailureFatal ==
    last[2] = "launch_fail" => (pc = "Exit" /\ result = "Err")

\* C12 amended: a command that cannot be launched ends the run with an
\* error at once in every state but Cleanup; the results of the two cleanup
\* commands are discarded and the run goes on
C12_LaunchFailureAmended ==
    /\ (last[2] = "launch_fail" /\ last[1] \notin {"compose_down", "rm"}) =>
          /\ pc = "Exit"
          /\ result = "Err"
          /\ err = "io::Error"
          /\ events[Len(events)] = "cmd:" \o last[1]
    /\ last = <<"compose_down", "launch_fail">> =>
          (pc = "CleanupRm" /\ result = "Running")
    /\ last = <<"rm", "launch_fail">> =>
          (pc = "ImageBuild" /\ result = "Running")

\* the log query of the third attempt cannot be launched, after a cleanup
\* command that could not be launched either
C12_Witness ==
    /\ last = <<"grep", "launch_fail">>
    /\ "launch_fail:cleanup" \in happened
    /\ attempt = 3
    /\ pc = "Exit"

\* one step of an inspect or log-fetch command that reports a failure status
C13_Step ==
    /\ (pc = "InspectStart" /\ last'[2] = "failure") =>
          (pc' = "ExtractSleep" /\ result' = "Running")
    /\ (pc = "ExtractQuery" /\ last'[2] = "failure") =>
          /\ result' = "Running"
          /\ pc' = IF peer_id' # <<>> \/ attempt = 20
                   THEN "ExtractResult" ELSE "ExtractSleep"
    /\ (pc = "VerifyInspect" /\ last'[2] = "failure") =>
          (pc' = "CheckConnections" /\ result' = "Running")
    /\ (pc = "CheckConnections" /\ last'[2] = "failure") =>
          /\ result' = "Running"
          /\ pc' = IF container = 4 THEN "Peer1Logs" ELSE "CheckConnections"
    /\ (pc = "Peer1Logs" /\ last'[2] = "failure") =>
          (pc' = "Exit" /\ result' = "Ok")

\* C13: an inspect or log-fetch command that reports a failure status does
\* not end the run, and the step that follows is the one that follows a
\* success
C13_StatusIgnored == [][C13_Step]_vars

\* the start-time inspect has reported a failure status and the loop starts
C13_Witness ==
    /\ last = <<"inspect_start", "failure">>
    /\ pc = "ExtractSleep"
    /\ attempt = 1

\* C14: in a run that reaches ConfigRestore the file has been read once,
\* before the first write, and written twice, first with the rewritten and
\* then with the restored content, and this stays so to the end of the run
C14_StorageAccess ==
    Entered("ConfigRestore") =>
        /\ Count("fs:read") = 1
        /\ Count("fs:write") = 2
        /\ LastIndex("fs:read") < FirstIndex("fs:write")
        /\ writes = <<updated_content, original_content>>

\* a completed run whose two writes differ
C14_Witness ==
    /\ Completed
    /\ Len(writes) = 2
    /\ writes[1] # writes[2]
    /\ Count("fs:read") = 1

\* number of positions of text at which pat occurs
Occurrences(text, pat) ==
    Cardinality({ i \in 1..Len(text) :
        /\ i + Len(pat) - 1 <= Len(text)
        /\ \A j \in 1..Len(pat) : text[i + j - 1] = pat[j] })

\* C16: each of the three counts is the number of occurrences of its marker
\* in peer1's combined log text, whatever else the text holds, and a run
\* whose last log fetch was launched ends with success whatever the counts
C16_MarkerCounts ==
    /\ counts # <<>> =>
          /\ counts[1] = Occurrences(peer1_combined, <<"D","C","U","t","R">>)
          /\ counts[2] = Occurrences(peer1_combined, <<"A","u","t","o","N","A","T">>)
          /\ counts[3] = Occurrences(peer1_combined, <<"R","e","a","c","h","a","b","i","l","i","t","y">>)
    /\ (pc = "Exit" /\ last[1] = "logs_peer1" /\ last[2] # "launch_fail") =>
          (counts # <<>> /\ result = "Ok")

\* three mentions of DCUtR, one spanning stdout and stderr, in a text that
\* holds no connection marker
C16_Witness ==
    /\ Completed
    /\ counts[1] = 3
    /\ counts[3] = 0
    /\ ~Occurs(peer1_combined, MarkerConnectedTo)
    /\ ~Occurs(peer1_combined, MarkerTotalConnected)

\* C17: when `compose up -d` fails, by status or by not being launched, the
\* run has ended with an error, the rewrite is the only write made, and the
\* file holds the rewritten content
C17_NoRestoreOnFailure ==
    ("status:up_all" \in happened \/ "launch_fail:up_all" \in happened) =>
        /\ pc = "Exit"
        /\ result = "Err"
        /\ Count("fs:write") = 1
        /\ writes = << updated_content >>
        /\ file = updated_content
        /\ updated_content = replace(file0, PLACEHOLDER, peer_id[1])

\* the start of all peers could not be launched and the file holds the peer
\* id where the placeholder was
C17_Witness ==
    /\ "launch_fail:up_all" \in happened
    /\ file0 = <<"-","-","b","=">> \o PLACEHOLDER \o <<"\n">>
    /\ file = <<"-","-","b","=">> \o ID52 \o <<"\n">>

\* C18: a log output that holds `local_peer_id=` but no valid token sets no
\* peer id and the loop goes on to the next attempt, or ends after the
\* twentieth; when all twenty outputs are of that kind the run ends with the
\* extraction-timeout error
C18_MalformedIsFailure ==
    /\ (pc \in {"ExtractSleep", "ExtractResult"} /\ Malformed(peer_id_line)) =>
          /\ peer_id = <<>>
          /\ result = "Running"
          /\ pc = "ExtractSleep" => (attempt = Count("cmd:grep") + 1 /\ attempt <= 20)
          /\ pc = "ExtractResult" => Count("cmd:grep") = 20
    /\ (onlyMalformed /\ Count("cmd:grep") = 20 /\ last[2] # "launch_fail"
        /\ pc = "Exit") =>
          /\ result = "Err"
          /\ err = "Could not extract peer ID from bootstrap logs after 20 seconds. Check container logs with: docker logs chiral-bootstrap"
          /\ peer_id = <<>>

\* twenty malformed outputs and the run has ended
C18_Witness ==
    /\ onlyMalformed
    /\ Count("cmd:grep") = 20
    /\ last[1] = "grep"
    /\ last[2] # "launch_fail"
    /\ pc = "Exit"

\* C15: every run ends, with success or with an error, and inside the
\* extraction loop the attempt counter is within 1..20
C15_Termination ==
    /\ <>Terminated
    /\ [](pc \in {"ExtractSleep", "ExtractQuery"} => attempt \in 1..20)

\* a run that found the peer id at the twentieth attempt has completed
C15_Witness ==
    /\ Completed
    /\ reported_attempt = 20
    /\ attempt = 20

====
